---- MODULE Spec2Model ----
(***************************************************************************)
(* Short-code allocation and record store of the url-shortner service.     *)
(*                                                                         *)
(* The Redis server is modelled by its documented command semantics: every *)
(* command is one atomic step on the key space, a hash key exists iff it   *)
(* has at least one field, all field values are text, and a key carries an *)
(* optional absolute expiry in milliseconds.  The adapter operations of    *)
(* internal/redis/redis.go and the handlers of internal/server/routes.go   *)
(* are sequences of such commands; processes interleave between commands.  *)
(* Times and durations are in milliseconds.                                *)
(***************************************************************************)
EXTENDS Integers, Sequences, FiniteSets, TLC

\* ---------------------------------------------------------------- bounds
NProcs == 2        \* concurrent requests / callers
MaxOps == 4        \* adapter calls and requests started in one behaviour
MaxAdvances == 1   \* clock advances in one behaviour
MaxFails == 1      \* store commands that fail (connectivity) in one behaviour

Procs == 1..NProcs

\* ---------------------------------------------------------------- inputs
Codes == { <<"a","b","c","1","2","3","4">> }
URLs == { "https://example.com", "https://example.com/dup" }
TTLs == { 0, 86400000 }                  \* time.Duration arguments, in ms
Durations == { 86399600, 86400600 }      \* amounts by which the clock advances

NoExpiry == -1     \* a key without expiry (TTL replies -1)

\* ---------------------------------------------------------------- text
\* strconv formatting of an integer (HSET visits 0, HINCRBY's stored value)
FormatInt(n) == ToString(n)

\* strconv.ParseInt(s, 10, 64): fails on the empty string and on non-digits
ParseInt(s) ==
  IF \E n \in 0..(MaxOps + 1) : FormatInt(n) = s
  THEN [ok |-> TRUE, val |-> CHOOSE n \in 0..(MaxOps + 1) : FormatInt(n) = s]
  ELSE [ok |-> FALSE, val |-> 0]

RECURSIVE ClockValues(_)
ClockValues(k) ==
  IF k = 0 THEN {0}
  ELSE ClockValues(k - 1) \cup { t + d : t \in ClockValues(k - 1), d \in Durations }

\* time.Format(time.RFC3339Nano) of a UTC instant
FormatTime(t) == ToString(t) \o "Z"

\* time.Parse(time.RFC3339Nano, s): fails on the empty string
ParseTime(s) ==
  IF \E t \in ClockValues(MaxAdvances + 1) : FormatTime(t) = s
  THEN [ok |-> TRUE, val |-> CHOOSE t \in ClockValues(MaxAdvances + 1) : FormatTime(t) = s]
  ELSE [ok |-> FALSE, val |-> 0]

\* ---------------------------------------------------------------- keys
shortURLKeyPrefix == <<"s","h","o","r","t",":","u","r","l",":">>
shortURLKey(code) == shortURLKeyPrefix \o code
Keys == { shortURLKey(c) : c \in Codes }

\* ---------------------------------------------------------------- Redis commands
\* A hash is a function from field names to text; the key exists iff the
\* hash has a field.
EmptyHash == [f \in {} |-> ""]

\* EXISTS key
Exists(h) == DOMAIN h # {}

\* HSETNX key field value: sets the field only when the hash lacks it
HSetNXAlways(h, field, value) ==
  [set |-> TRUE, hash |-> (field :> value) @@ h]
HSetNXOverwrites(h, field, value) ==
  [set |-> field \notin DOMAIN h, hash |-> (field :> value) @@ h]
HSetNX(h, field, value) ==
  IF field \in DOMAIN h
  THEN [set |-> FALSE, hash |-> h]
  ELSE [set |-> TRUE, hash |-> (field :> value) @@ h]

\* HSET key created_at <text> visits 0: sets (overwrites) both fields,
\* creating the key when it is absent
HSet(h, createdAt, visits) ==
  ("created_at" :> createdAt) @@ ("visits" :> visits) @@ h

\* HGET key field: the value, or redis.Nil when key or field is absent
HGetWrongField(h, field) ==
  IF "created_at" \in DOMAIN h
  THEN [nil |-> FALSE, val |-> h["created_at"]]
  ELSE [nil |-> TRUE, val |-> ""]
HGet(h, field) ==
  IF field \in DOMAIN h
  THEN [nil |-> FALSE, val |-> h[field]]
  ELSE [nil |-> TRUE, val |-> ""]

\* HINCRBY key field 1: an absent key or field counts as 0; the key is
\* created when absent; a value that is no integer is an error reply
HIncrByStale(h, field) ==
  [err |-> FALSE, val |-> 1, hash |-> (field :> FormatInt(1)) @@ h]
HIncrBy(h, field) ==
  LET old == IF field \in DOMAIN h THEN ParseInt(h[field]) ELSE [ok |-> TRUE, val |-> 0]
  IN IF old.ok
     THEN [err |-> FALSE, val |-> old.val + 1,
           hash |-> (field :> FormatInt(old.val + 1)) @@ h]
     ELSE [err |-> TRUE, val |-> 0, hash |-> h]

\* TTL key, in seconds: -2 without the key, -1 without expiry, otherwise the
\* remaining milliseconds rounded to the nearest second
TTLReply(h, exp, t) ==
  IF ~Exists(h) THEN -2
  ELSE IF exp = NoExpiry THEN -1
  ELSE (exp - t + 500) \div 1000

\* EXPIRE key seconds: the absolute expiry, when the key exists
ExpireAt(h, exp, t, ttl) ==
  IF Exists(h) THEN t + ttl ELSE exp

\* DEL key: the number of keys removed
Del(h) == [removed |-> IF Exists(h) THEN 1 ELSE 0, hash |-> EmptyHash]

\* a key whose expiry lies in the past is gone
Expired(exp, t) == exp # NoExpiry /\ t > exp

\* ShortCodeExists: exists == 1
ShortCodeExistsAlways(h) == TRUE
ShortCodeExistsReply(h) == Exists(h)

\* ---------------------------------------------------------------- errors
ErrNil == "nil"
ErrNotFound == "short url not found"
ErrConflict == "short code already exists"
StoreError == "store error"              \* a wrapped connectivity/protocol error
AliasError == "custom_alias must match ^[a-zA-Z0-9_-]{4,32}$"
ExhaustedError == "failed to allocate unique short code"
RandError == "generate short code"       \* rand.Reader failed

\* ---------------------------------------------------------------- state
VARIABLES
  store,    \* Redis: key -> hash
  expAt,    \* Redis: key -> absolute expiry in ms, or NoExpiry
  now,      \* the clock, ms
  pc,       \* per process: the store command it issues next, or "idle"
  arg,      \* per process: arguments of the adapter call in progress
  loc,      \* per process: local variables of the call in progress
  ret,      \* what the adapter call returned that returned in the last step, if any
  hnd,      \* per process: the HTTP request in progress
  resp,     \* the HTTP response written in the last step, if any
  seen,     \* history: the record as it stood at each instant of a GetStats call
  hist,     \* history: per code, how its key came about
  ops, advs, fails   \* counters that bound a behaviour

vars == <<store, expAt, now, pc, arg, loc, ret, hnd, resp, seen, hist, ops, advs, fails>>

ArgNone == [code |-> <<>>, url |-> "", ttl |-> 0]

PreNone ==
  [committed |-> FALSE, curl |-> "", cttl |-> 0, incs |-> 0, ever |-> FALSE,
   gone |-> FALSE, partial |-> FALSE]

LocNone == [createdAt |-> "", values |-> EmptyHash, pre |-> PreNone]

\* URLStats plus the other results of the Service interface
RetNone ==
  [op |-> "none", code |-> <<>>, err |-> ErrNil, url |-> "", n |-> 0,
   createdAt |-> 0, hasExpiresAt |-> FALSE, expiresAt |-> 0, found |-> FALSE,
   longURL |-> "", ttl |-> 0, set |-> FALSE, snapshot |-> FALSE, pre |-> PreNone]

\* a request in progress: alias is the customAlias given to resolveShortCode,
\* attempt its loop counter, checks the existence checks it has made, target
\* the url GetLongURL returned to redirectHandler
HndNone ==
  [name |-> "none", url |-> "", days |-> 0, expiresAt |-> 0, attempt |-> 0,
   passed |-> FALSE, alias |-> <<>>, checks |-> 0, target |-> ""]

\* a response: err is the error value the handler mapped to the status and
\* from the function that returned it; incremented tells whether
\* IncrementVisits returned nil in the request
RespNone ==
  [handler |-> "none", status |-> 0, message |-> "", code |-> <<>>,
   url |-> "",
   hasExpiresAt |-> FALSE, expiresAt |-> 0, passed |-> FALSE,
   alias |-> <<>>, checks |-> 0, err |-> ErrNil, from |-> "none",
   location |-> "", incremented |-> FALSE, days |-> 0]

HistNone ==
  [creator |-> 0, curl |-> "", cttl |-> 0, committed |-> FALSE, incs |-> 0, rets |-> {},
   origin |-> "none", removed |-> FALSE, gone |-> FALSE, wins |-> 0, oks |-> 0,
   partial |-> FALSE]

\* ---------------------------------------------------------------- history
\* the key was removed by DEL or by expiry
OnRemoved(g) ==
  [g EXCEPT !.creator = 0, !.curl = "", !.cttl = 0, !.committed = FALSE, !.incs = 0,
            !.rets = {}, !.origin = "none", !.removed = TRUE, !.gone = TRUE,
            !.wins = 0, !.oks = 0, !.partial = FALSE]

\* HSETNX url succeeded for process p, whose call carries ttl
OnHSetNX(g, p, u, ttl, existed) ==
  [g EXCEPT !.creator = p, !.curl = u, !.cttl = ttl, !.committed = FALSE, !.wins = @ + 1,
            !.gone = FALSE,
            !.origin = IF existed THEN @ ELSE "hsetnx",
            !.incs = IF existed THEN @ ELSE 0,
            !.rets = IF existed THEN @ ELSE {}]

\* HSET created_at/visits was applied
OnHSet(g, existed) ==
  [g EXCEPT !.origin = IF existed THEN @ ELSE "hset", !.incs = 0, !.rets = {},
            !.gone = FALSE]

\* HINCRBY visits replied val
OnHIncrBy(g, existed, val) ==
  [g EXCEPT !.origin = IF existed THEN @ ELSE "hincrby",
            !.incs = @ + 1, !.rets = @ \cup {val}]

\* CreateShortURL of process p returned nil
OnCreated(g, p) ==
  [g EXCEPT !.oks = @ + 1, !.committed = (@ \/ g.creator = p)]

\* CreateShortURL of process p returned a store error after its HSETNX had
\* succeeded
OnPartial(g, p) ==
  [g EXCEPT !.partial = (@ \/ g.creator = p)]

PreOf(g) ==
  [committed |-> g.committed, curl |-> g.curl, cttl |-> g.cttl, incs |-> g.incs,
   ever |-> (g.creator # 0 \/ g.removed), gone |-> g.gone, partial |-> g.partial]

\* the record of a key as one atomic read of all of it would show it
Field(h, f) == IF f \in DOMAIN h THEN h[f] ELSE ""
SnapOf(h, exp, t) ==
  [present |-> Exists(h), url |-> Field(h, "url"), created_at |-> Field(h, "created_at"),
   visits |-> Field(h, "visits"), expires |-> TTLReply(h, exp, t) > 0]

\* every step appends the record's new state to the GetStats calls in progress
Observe ==
  seen' = [p \in Procs |->
            IF pc'[p] = "stats_ttl"
            THEN (IF pc[p] = "stats_ttl" THEN seen[p] ELSE {})
                 \cup {SnapOf(store'[shortURLKey(arg'[p].code)],
                              expAt'[shortURLKey(arg'[p].code)], now')}
            ELSE {}]

\* ---------------------------------------------------------------- Init
Init ==
  /\ store = [k \in Keys |-> EmptyHash]
  /\ expAt = [k \in Keys |-> NoExpiry]
  /\ now = 0
  /\ pc = [p \in Procs |-> "idle"]
  /\ arg = [p \in Procs |-> ArgNone]
  /\ loc = [p \in Procs |-> LocNone]
  /\ ret = RetNone
  /\ hnd = [p \in Procs |-> HndNone]
  /\ resp = RespNone
  /\ seen = [p \in Procs |-> {}]
  /\ hist = [c \in Codes |-> HistNone]
  /\ ops = 0
  /\ advs = 0
  /\ fails = 0

\* ---------------------------------------------------------------- returning
ParseError == "parse error"              \* a stored field that does not parse

Result(op, code, err, pre) ==
  [RetNone EXCEPT !.op = op, !.code = code, !.err = err, !.pre = pre]

\* a result of CreateShortURL(code, longURL, ttl)
Created(c, u, ttl, err, pre) ==
  [Result("CreateShortURL", c, err, pre) EXCEPT !.longURL = u, !.ttl = ttl]

\* strings.Contains(err.Error(), "custom_alias"), over the error texts above:
\* only the validation error of resolveShortCode holds the word
MentionsCustomAliasAlways(err) == TRUE
MentionsCustomAlias(err) == err = AliasError

\* createShortURLHandler's answer to an error of resolveShortCode
ResolveErrorResponse(h, err) ==
  LET r == [RespNone EXCEPT !.handler = "shorten", !.url = h.url, !.alias = h.alias,
                            !.checks = h.checks, !.err = err,
                            !.from = "resolveShortCode"]
  IN IF err = ErrConflict
     THEN [r EXCEPT !.status = 409, !.message = "custom alias already exists",
                    !.code = h.alias]
     ELSE IF MentionsCustomAlias(err)
     THEN [r EXCEPT !.status = 400, !.message = err]
     ELSE [r EXCEPT !.status = 500, !.message = "failed to generate short code"]

\* createShortURLHandler's answer to what CreateShortURL returned
ShortenResponse(h, code, err) ==
  LET r == [RespNone EXCEPT !.handler = "shorten", !.code = code, !.url = h.url,
                            !.passed = h.passed, !.alias = h.alias,
                            !.checks = h.checks, !.err = err,
                            !.from = "CreateShortURL", !.days = h.days]
  IN IF err = ErrConflict
     THEN [r EXCEPT !.status = 409, !.message = "short code already exists"]
     ELSE IF err # ErrNil
     THEN [r EXCEPT !.status = 500, !.message = "failed to store short URL"]
     ELSE [r EXCEPT !.status = 201,
                    !.hasExpiresAt = (h.days > 0), !.expiresAt = h.expiresAt]

\* the answer to a request whose path holds no code
NotFoundResponse(name) ==
  [RespNone EXCEPT !.handler = name, !.status = 404, !.message = "short code not found"]

\* redirectHandler's answer to an error of GetLongURL
RedirectErrorResponse(code, err) ==
  LET r == [RespNone EXCEPT !.handler = "redirect", !.code = code, !.err = err,
                            !.from = "GetLongURL"]
  IN IF err = ErrNotFound
     THEN [r EXCEPT !.status = 404, !.message = "short code not found"]
     ELSE [r EXCEPT !.status = 500, !.message = "failed to resolve short URL"]

\* redirectHandler after IncrementVisits returned err: the error is logged
\* and the redirect is written
RedirectResponse(h, code, err) ==
  [RespNone EXCEPT !.handler = "redirect", !.code = code, !.status = 302,
                   !.location = h.target, !.incremented = (err = ErrNil)]

\* urlStatsHandler's answer to what GetStats returned
StatsResponse(r) ==
  LET q == [RespNone EXCEPT !.handler = "stats", !.code = r.code, !.err = r.err,
                            !.from = "GetStats"]
  IN IF r.err = ErrNotFound
     THEN [q EXCEPT !.status = 404, !.message = "short code not found"]
     ELSE IF r.err # ErrNil
     THEN [q EXCEPT !.status = 500, !.message = "failed to fetch URL stats"]
     ELSE [q EXCEPT !.status = 200, !.url = r.url,
                    !.hasExpiresAt = r.hasExpiresAt, !.expiresAt = r.expiresAt]

\* deleteURLHandler's answer to what DeleteShortURL returned
DeleteResponse(code, err) ==
  LET q == [RespNone EXCEPT !.handler = "delete", !.code = code, !.err = err,
                            !.from = "DeleteShortURL"]
  IN IF err = ErrNotFound
     THEN [q EXCEPT !.status = 404, !.message = "short code not found"]
     ELSE IF err # ErrNil
     THEN [q EXCEPT !.status = 500, !.message = "failed to delete short URL"]
     ELSE [q EXCEPT !.status = 204]

\* what the handler h writes when its adapter call returns r
HandlerResponse(h, r) ==
  CASE h.name = "shorten" -> ShortenResponse(h, r.code, r.err)
    [] h.name = "redirect" -> RedirectResponse(h, r.code, r.err)
    [] h.name = "stats" -> StatsResponse(r)
    [] h.name = "delete" -> DeleteResponse(r.code, r.err)
    [] OTHER -> RespNone

\* the call of process p returns r and the response q is written
Answer(p, r, q) ==
  /\ pc' = [pc EXCEPT ![p] = "idle"]
  /\ arg' = [arg EXCEPT ![p] = ArgNone]
  /\ loc' = [loc EXCEPT ![p] = LocNone]
  /\ ret' = r
  /\ hnd' = [hnd EXCEPT ![p] = HndNone]
  /\ resp' = q

\* the adapter call of process p returns r; a handler that made the call
\* writes its response
Finish(p, r) == Answer(p, r, HandlerResponse(hnd[p], r))

\* the same for a call that is the first thing the handler name does ("none"
\* for a direct call of the adapter)
Return(p, name, r) == Answer(p, r, HandlerResponse([HndNone EXCEPT !.name = name], r))

\* a caller with no call in progress starts one
CanStart(p) == pc[p] = "idle" /\ ops < MaxOps

\* ---------------------------------------------------------------- CreateShortURL
\* createdAt := time.Now(); HSETNX key url longURL
HSetNXStep(p, c, u, ttl) ==
  LET k == shortURLKey(c)
      r == HSetNX(store[k], "url", u)
      pre == PreOf(hist[c])
  IN /\ \/ /\ fails < MaxFails
           /\ fails' = fails + 1
           /\ UNCHANGED <<store, hist>>
           /\ Finish(p, Created(c, u, ttl, StoreError, pre))
        \/ /\ ~r.set
           /\ store' = [store EXCEPT ![k] = r.hash]
           /\ UNCHANGED <<hist, fails>>
           /\ Finish(p, Created(c, u, ttl, ErrConflict, pre))
        \/ /\ r.set
           /\ store' = [store EXCEPT ![k] = r.hash]
           /\ hist' = [hist EXCEPT ![c] = OnHSetNX(@, p, u, ttl, Exists(store[k]))]
           /\ pc' = [pc EXCEPT ![p] = "create_hset"]
           /\ arg' = [arg EXCEPT ![p] = [code |-> c, url |-> u, ttl |-> ttl]]
           /\ loc' = [loc EXCEPT ![p] = [LocNone EXCEPT !.createdAt = FormatTime(now),
                                                       !.pre = pre]]
           /\ ret' = RetNone
           /\ resp' = RespNone
           /\ UNCHANGED <<hnd, fails>>
     /\ UNCHANGED <<expAt, now, advs>>
     /\ Observe

CreateShortURL(p) ==
  /\ CanStart(p)
  /\ ops' = ops + 1
  /\ \E c \in Codes, u \in URLs, ttl \in TTLs : HSetNXStep(p, c, u, ttl)

\* HSET key created_at createdAt visits 0
CreateHSet(p) ==
  LET c == arg[p].code
      k == shortURLKey(c)
      existed == Exists(store[k])
  IN /\ pc[p] = "create_hset"
     /\ \/ /\ fails < MaxFails
           /\ fails' = fails + 1
           /\ UNCHANGED store
           /\ hist' = [hist EXCEPT ![c] = OnPartial(@, p)]
           /\ Finish(p, [Created(c, arg[p].url, arg[p].ttl, StoreError, loc[p].pre)
                           EXCEPT !.set = TRUE])
        \/ /\ store' = [store EXCEPT ![k] = HSet(@, loc[p].createdAt, FormatInt(0))]
           /\ UNCHANGED fails
           /\ IF arg[p].ttl > 0
              THEN /\ pc' = [pc EXCEPT ![p] = "create_expire"]
                   /\ hist' = [hist EXCEPT ![c] = OnHSet(@, existed)]
                   /\ ret' = RetNone
                   /\ resp' = RespNone
                   /\ UNCHANGED <<arg, loc, hnd>>
              ELSE /\ hist' = [hist EXCEPT ![c] = OnCreated(OnHSet(@, existed), p)]
                   /\ Finish(p, [Created(c, arg[p].url, arg[p].ttl, ErrNil, loc[p].pre)
                                   EXCEPT !.set = TRUE])
     /\ UNCHANGED <<expAt, now, ops, advs>>
     /\ Observe

\* EXPIRE key ttl
CreateExpire(p) ==
  LET c == arg[p].code
      k == shortURLKey(c)
  IN /\ pc[p] = "create_expire"
     /\ \/ /\ fails < MaxFails
           /\ fails' = fails + 1
           /\ UNCHANGED expAt
           /\ hist' = [hist EXCEPT ![c] = OnPartial(@, p)]
           /\ Finish(p, [Created(c, arg[p].url, arg[p].ttl, StoreError, loc[p].pre)
                           EXCEPT !.set = TRUE])
        \/ /\ expAt' = [expAt EXCEPT ![k] = ExpireAt(store[k], @, now, arg[p].ttl)]
           /\ hist' = [hist EXCEPT ![c] = OnCreated(@, p)]
           /\ UNCHANGED fails
           /\ Finish(p, [Created(c, arg[p].url, arg[p].ttl, ErrNil, loc[p].pre)
                           EXCEPT !.set = TRUE])
     /\ UNCHANGED <<store, now, ops, advs>>
     /\ Observe

\* ---------------------------------------------------------------- POST /api/v1/shorten
shortCodeLength == 7
maxCodeAttemptsFewer == 10 - 7
maxCodeAttempts == 10

alphabet ==
  <<"0","1","2","3","4","5","6","7","8","9",
    "a","b","c","d","e","f","g","h","i","j","k","l","m","n","o","p","q","r","s","t",
    "u","v","w","x","y","z",
    "A","B","C","D","E","F","G","H","I","J","K","L","M","N","O","P","Q","R","S","T",
    "U","V","W","X","Y","Z">>

\* the outcomes of the random source: one index below len(alphabet) per character
RandomDraws == { <<10, 11, 12, 1, 2, 3, 4>> }

\* buf[i] = alphabet[n.Int64()]
generateShortCodeShort(draws) == [i \in 1..(Len(draws) - 1) |-> alphabet[draws[i] + 1]]
generateShortCode(draws) == [i \in 1..Len(draws) |-> alphabet[draws[i] + 1]]

\* ^[a-zA-Z0-9_-]{4,32}$
aliasPattern(a) ==
  /\ Len(a) >= 4
  /\ Len(a) <= 32
  /\ \A i \in 1..Len(a) : a[i] \in {alphabet[j] : j \in 1..Len(alphabet)} \cup {"_", "-"}

\* strings.TrimSpace
RECURSIVE TrimSpace(_)
TrimSpace(a) ==
  IF a = <<>> THEN a
  ELSE IF Head(a) = " " THEN TrimSpace(Tail(a))
  ELSE IF a[Len(a)] = " " THEN TrimSpace(SubSeq(a, 1, Len(a) - 1))
  ELSE a

\* the custom_alias values of the requests
Aliases ==
  { <<>>, <<"a","b","c","1","2","3","4">>, <<" ","a","b","c","1","2","3","4"," ">>,
    <<"a","b">>, <<"a","b","c","!">> }

\* the url values of the requests; url.Parse of each one, after TrimSpace
RawURLs == URLs \cup { "", "ftp://example.com", "https://" }
URLScheme(raw) ==
  CASE raw = "" -> ""
    [] raw = "ftp://example.com" -> "ftp"
    [] OTHER -> "https"
URLHost(raw) ==
  CASE raw = "" -> ""
    [] raw = "https://" -> ""
    [] OTHER -> "example.com"

\* the error of validateTargetURL, "" when the url is accepted
validateTargetURL(raw) ==
  IF raw = "" THEN "url is required"
  ELSE IF URLScheme(raw) # "http" /\ URLScheme(raw) # "https"
  THEN "url must start with http:// or https://"
  ELSE IF URLHost(raw) = "" THEN "url host is required"
  ELSE ""

\* the expiration_days values of the requests
Days == { -1, 0, 1 }

\* the expiration_days values of the requests that ask for a long life:
\* time.Duration holds at most 106751 days and 2^64 ns are 213503.98 days
ExpirationDays == { 0, 1, 30, 106751, 106752, 213504 }

\* a time.Duration: int64 nanoseconds, as 16-bit limbs, least significant
\* first; four limbs are the 64 bits of the machine word
LimbBase == 2^16
Limbs(n, k) == [i \in 1..k |-> IF i = 1 THEN n % LimbBase
                                ELSE IF i = 2 THEN n \div LimbBase ELSE 0]

\* x * m on Len(x) limbs: the carry out of the last limb is lost
RECURSIVE MulCarry(_, _, _, _)
MulCarry(x, m, i, carry) ==
  IF i > Len(x) THEN <<>>
  ELSE <<(x[i] * m + carry) % LimbBase>>
         \o MulCarry(x, m, i + 1, (x[i] * m + carry) \div LimbBase)
Mul(x, m) == MulCarry(x, m, 1, 0)

\* time.Duration(days) * 24 * time.Hour on k limbs; time.Hour is
\* 3600 * 1000 * 1000 * 1000 ns
HoursTimesHour(days, k) ==
  Mul(Mul(Mul(Mul(Mul(Limbs(days, k), 24), 3600), 1000), 1000), 1000)

\* the product as the int64 multiplication leaves it
Duration(days) == HoursTimesHour(days, 4)

\* the sign bit of the word
Negative(d) == d[Len(d)] >= LimbBase \div 2

\* the int64 product differs from days x 24h
Wraps(days) ==
  \/ Negative(Duration(days))
  \/ HoursTimesHour(days, 6) # Duration(days) \o <<0, 0>>

\* -d in two's complement
RECURSIVE NegCarry(_, _, _)
NegCarry(d, i, carry) ==
  IF i > Len(d) THEN <<>>
  ELSE <<(LimbBase - 1 - d[i] + carry) % LimbBase>>
         \o NegCarry(d, i + 1, (LimbBase - 1 - d[i] + carry) \div LimbBase)
Negate(d) == NegCarry(d, 1, 1)

\* x / m, from the most significant limb down
RECURSIVE DivRem(_, _, _, _)
DivRem(x, m, i, rem) ==
  IF i = 0 THEN <<>>
  ELSE DivRem(x, m, i - 1, (rem * LimbBase + x[i]) % m)
         \o <<(rem * LimbBase + x[i]) \div m>>
Div(x, m) == DivRem(x, m, Len(x), 0)

\* the clock of the model covers ClockRange = 2^30 ms: a longer span is kept
\* as ClockRange
ClockRange == 1073741824
ToClock(x) ==
  IF x[4] # 0 \/ x[3] # 0 \/ x[2] >= ClockRange \div LimbBase
  THEN ClockRange
  ELSE x[2] * LimbBase + x[1]

\* a Duration in ms
Milliseconds(d) ==
  IF Negative(d)
  THEN 0 - ToClock(Div(Div(Negate(d), 1000), 1000))
  ELSE ToClock(Div(Div(d, 1000), 1000))

\* time.Duration(req.ExpirationDays) * 24 * time.Hour, in ms
DaysToTTL(days) == Milliseconds(Duration(days))

Response(status, message) ==
  [RespNone EXCEPT !.handler = "shorten", !.status = status, !.message = message]

\* the request of process p is answered without a CreateShortURL call
RespondAndRetry(p, r) ==
  /\ resp' = r
  /\ pc' = [pc EXCEPT ![p] = IF r.err = StoreError THEN "shorten_resolve" ELSE "idle"]
  /\ hnd' = [hnd EXCEPT ![p] = IF r.err = StoreError
                                THEN [HndNone EXCEPT !.name = "shorten"] ELSE HndNone]
  /\ arg' = [arg EXCEPT ![p] = ArgNone]
  /\ ret' = RetNone
  /\ UNCHANGED loc
Respond(p, r) ==
  /\ resp' = r
  /\ pc' = [pc EXCEPT ![p] = "idle"]
  /\ hnd' = [hnd EXCEPT ![p] = HndNone]
  /\ arg' = [arg EXCEPT ![p] = ArgNone]
  /\ ret' = RetNone
  /\ UNCHANGED loc

\* a shorten request that has passed validation and calls
\* resolveShortCode(customAlias)
Resolving(url, days, customAlias) ==
  [HndNone EXCEPT !.name = "shorten", !.url = url, !.days = days, !.alias = customAlias]

\* resolveShortCode returned code to the request h: ttl and expiresAt are
\* computed, and CreateShortURL is called next
Resolved(p, code, h) ==
  /\ pc' = [pc EXCEPT ![p] = "shorten_create"]
  /\ arg' = [arg EXCEPT ![p] = [code |-> code, url |-> h.url,
                                ttl |-> IF h.days > 0 THEN DaysToTTL(h.days) ELSE 0]]
  /\ hnd' = [hnd EXCEPT ![p] =
              [h EXCEPT !.expiresAt = IF h.days > 0 THEN now + DaysToTTL(h.days) ELSE 0,
                        !.passed = TRUE]]
  /\ ret' = RetNone
  /\ resp' = RespNone
  /\ UNCHANGED loc

\* one pass of resolveShortCode's loop for the request h: a candidate and its
\* existence check; h.attempt is the loop counter i
ResolveAttempt(p, h) ==
  \E draws \in RandomDraws :
    LET candidate == generateShortCode(draws)
        checked == [h EXCEPT !.checks = @ + 1]
    IN \/ /\ fails < MaxFails
          /\ fails' = fails + 1
          /\ Respond(p, ResolveErrorResponse(h, RandError))
       \/ /\ fails < MaxFails
          /\ fails' = fails + 1
          /\ Respond(p, ResolveErrorResponse(checked, StoreError))
       \/ /\ ~ShortCodeExistsReply(store[shortURLKey(candidate)])
          /\ UNCHANGED fails
          /\ Resolved(p, candidate, checked)
       \/ /\ ShortCodeExistsReply(store[shortURLKey(candidate)])
          /\ h.attempt + 1 < maxCodeAttempts
          /\ UNCHANGED fails
          /\ pc' = [pc EXCEPT ![p] = "shorten_resolve"]
          /\ hnd' = [hnd EXCEPT ![p] = [checked EXCEPT !.attempt = @ + 1]]
          /\ ret' = RetNone
          /\ resp' = RespNone
          /\ UNCHANGED <<arg, loc>>
       \/ /\ ShortCodeExistsReply(store[shortURLKey(candidate)])
          /\ h.attempt + 1 >= maxCodeAttempts
          /\ UNCHANGED fails
          /\ Respond(p, ResolveErrorResponse([checked EXCEPT !.attempt = @ + 1],
                                              ExhaustedError))

\* createShortURLHandler for the requests it rejects before any store command
ShortenRejectedAfterCheck(p) ==
  /\ CanStart(p)
  /\ ops' = ops + 1
  /\ \/ Respond(p, Response(400, "invalid json body"))
     \/ \E raw \in RawURLs :
          /\ validateTargetURL(raw) # ""
          /\ Respond(p, Response(400, validateTargetURL(raw)))
     \/ \E raw \in RawURLs, days \in Days :
          /\ validateTargetURL(raw) = ""
          /\ days < 0
          /\ Respond(p, Response(400, "expiration_days must be >= 0"))
     \/ \E raw \in RawURLs, days \in Days, custom \in Aliases :
          /\ validateTargetURL(raw) = ""
          /\ days >= 0
          /\ TrimSpace(custom) # <<>>
          /\ ~aliasPattern(TrimSpace(custom))
          /\ Respond(p, ResolveErrorResponse(
                          [Resolving(raw, days, TrimSpace(custom)) EXCEPT !.checks = 1],
                          AliasError))
  /\ UNCHANGED <<store, expAt, now, hist, advs, fails>>
  /\ Observe
ShortenRejected(p) ==
  /\ CanStart(p)
  /\ ops' = ops + 1
  /\ \/ Respond(p, Response(400, "invalid json body"))
     \/ \E raw \in RawURLs :
          /\ validateTargetURL(raw) # ""
          /\ Respond(p, Response(400, validateTargetURL(raw)))
     \/ \E raw \in RawURLs, days \in Days :
          /\ validateTargetURL(raw) = ""
          /\ days < 0
          /\ Respond(p, Response(400, "expiration_days must be >= 0"))
     \/ \E raw \in RawURLs, days \in Days, custom \in Aliases :
          /\ validateTargetURL(raw) = ""
          /\ days >= 0
          /\ TrimSpace(custom) # <<>>
          /\ ~aliasPattern(TrimSpace(custom))
          /\ Respond(p, ResolveErrorResponse(Resolving(raw, days, TrimSpace(custom)),
                                              AliasError))
  /\ UNCHANGED <<store, expAt, now, hist, advs, fails>>
  /\ Observe

\* createShortURLHandler up to its first store command, for the requests
\* with a well-formed custom_alias
ShortenAlias(p, D) ==
  /\ CanStart(p)
  /\ ops' = ops + 1
  /\ \E raw \in {r \in RawURLs : validateTargetURL(r) = ""},
        days \in {d \in D : d >= 0},
        custom \in {a \in Aliases : TrimSpace(a) # <<>> /\ aliasPattern(TrimSpace(a))} :
       LET customAlias == TrimSpace(custom)
           h == [Resolving(raw, days, customAlias) EXCEPT !.checks = 1]
       IN /\ customAlias \in Codes
          /\ \/ /\ fails < MaxFails
                /\ fails' = fails + 1
                /\ Respond(p, ResolveErrorResponse(h, StoreError))
             \/ /\ ShortCodeExistsReply(store[shortURLKey(customAlias)])
                /\ UNCHANGED fails
                /\ Respond(p, ResolveErrorResponse(h, ErrConflict))
             \/ /\ ~ShortCodeExistsReply(store[shortURLKey(customAlias)])
                /\ UNCHANGED fails
                /\ Resolved(p, customAlias, h)
  /\ UNCHANGED <<store, expAt, now, hist, advs>>
  /\ Observe

Shorten(p) == ShortenAlias(p, Days)

\* the same for the requests that ask for a long life
ShortenLong(p) == ShortenAlias(p, ExpirationDays)

\* createShortURLHandler up to its first store command, without custom_alias
ShortenGenerate(p) ==
  /\ CanStart(p)
  /\ ops' = ops + 1
  /\ \E raw \in RawURLs, days \in Days, custom \in Aliases :
       /\ validateTargetURL(raw) = ""
       /\ days >= 0
       /\ TrimSpace(custom) = <<>>
       /\ ResolveAttempt(p, Resolving(raw, days, <<>>))
  /\ UNCHANGED <<store, expAt, now, hist, advs>>
  /\ Observe

\* the next pass of resolveShortCode's loop
ShortenResolve(p) ==
  /\ pc[p] = "shorten_resolve"
  /\ ResolveAttempt(p, hnd[p])
  /\ UNCHANGED <<store, expAt, now, hist, ops, advs>>
  /\ Observe

\* s.db.CreateShortURL(r.Context(), code, parsedURL.String(), ttl)
ShortenCreate(p) ==
  /\ pc[p] = "shorten_create"
  /\ UNCHANGED ops
  /\ HSetNXStep(p, arg[p].code, arg[p].url, arg[p].ttl)

\* ---------------------------------------------------------------- GetLongURL
\* HGET key url
GetLongURL(p) ==
  /\ CanStart(p)
  /\ ops' = ops + 1
  /\ \E c \in Codes :
       LET r == HGet(store[shortURLKey(c)], "url")
           pre == PreOf(hist[c])
       IN \/ /\ fails < MaxFails
             /\ fails' = fails + 1
             /\ Finish(p, Result("GetLongURL", c, StoreError, pre))
          \/ /\ UNCHANGED fails
             /\ Finish(p, IF r.nil
                          THEN Result("GetLongURL", c, ErrNotFound, pre)
                          ELSE [Result("GetLongURL", c, ErrNil, pre) EXCEPT !.url = r.val])
  /\ UNCHANGED <<store, expAt, now, hist, advs>>
  /\ Observe

\* ---------------------------------------------------------------- ShortCodeExists
\* EXISTS key
ShortCodeExists(p) ==
  /\ CanStart(p)
  /\ ops' = ops + 1
  /\ \E c \in Codes :
       LET pre == PreOf(hist[c])
       IN \/ /\ fails < MaxFails
             /\ fails' = fails + 1
             /\ Finish(p, Result("ShortCodeExists", c, StoreError, pre))
          \/ /\ UNCHANGED fails
             /\ Finish(p, [Result("ShortCodeExists", c, ErrNil, pre)
                             EXCEPT !.found = ShortCodeExistsReply(store[shortURLKey(c)])])
  /\ UNCHANGED <<store, expAt, now, hist, advs>>
  /\ Observe

\* ---------------------------------------------------------------- IncrementVisits
\* exists, err := s.ShortCodeExists(ctx, code)
ExistsStep(p, c) ==
  LET pre == PreOf(hist[c])
  IN /\ \/ /\ fails < MaxFails
           /\ fails' = fails + 1
           /\ Finish(p, Result("IncrementVisits", c, StoreError, pre))
        \/ /\ ~ShortCodeExistsReply(store[shortURLKey(c)])
           /\ UNCHANGED fails
           /\ Finish(p, Result("IncrementVisits", c, ErrNotFound, pre))
        \/ /\ ShortCodeExistsReply(store[shortURLKey(c)])
           /\ pc' = [pc EXCEPT ![p] = "incr_hincrby"]
           /\ arg' = [arg EXCEPT ![p] = [ArgNone EXCEPT !.code = c]]
           /\ loc' = [loc EXCEPT ![p] = [LocNone EXCEPT !.pre = pre]]
           /\ ret' = RetNone
           /\ resp' = RespNone
           /\ UNCHANGED <<hnd, fails>>
     /\ UNCHANGED <<store, expAt, now, hist, advs>>
     /\ Observe

IncrementVisits(p) ==
  /\ CanStart(p)
  /\ ops' = ops + 1
  /\ \E c \in Codes : ExistsStep(p, c)

\* HINCRBY key visits 1
IncrHIncrBy(p) ==
  LET c == arg[p].code
      k == shortURLKey(c)
      r == HIncrBy(store[k], "visits")
  IN /\ pc[p] = "incr_hincrby"
     /\ \/ /\ fails < MaxFails
           /\ fails' = fails + 1
           /\ UNCHANGED <<store, hist>>
           /\ Finish(p, Result("IncrementVisits", c, StoreError, loc[p].pre))
        \/ /\ UNCHANGED fails
           /\ store' = [store EXCEPT ![k] = r.hash]
           /\ hist' = [hist EXCEPT ![c] =
                        IF r.err THEN @ ELSE OnHIncrBy(@, Exists(store[k]), r.val)]
           /\ Finish(p, IF r.err
                        THEN Result("IncrementVisits", c, StoreError, loc[p].pre)
                        ELSE [Result("IncrementVisits", c, ErrNil, loc[p].pre)
                                EXCEPT !.n = r.val])
     /\ UNCHANGED <<expAt, now, ops, advs>>
     /\ Observe

\* ---------------------------------------------------------------- GetStats
\* HGETALL key, then the two fields are parsed; name is the handler that
\* makes the call
HGetAllStep(p, c, name) ==
  LET values == store[shortURLKey(c)]
      pre == PreOf(hist[c])
  IN /\ \/ /\ fails < MaxFails
           /\ fails' = fails + 1
           /\ Return(p, name, Result("GetStats", c, StoreError, pre))
        \/ /\ DOMAIN values = {}
           /\ UNCHANGED fails
           /\ Return(p, name, Result("GetStats", c, ErrNotFound, pre))
        \/ /\ DOMAIN values # {}
           /\ ~ParseTime(Field(values, "created_at")).ok
                \/ ~ParseInt(Field(values, "visits")).ok
           /\ UNCHANGED fails
           /\ Return(p, name, Result("GetStats", c, ParseError, pre))
        \/ /\ DOMAIN values # {}
           /\ ParseTime(Field(values, "created_at")).ok
           /\ ParseInt(Field(values, "visits")).ok
           /\ pc' = [pc EXCEPT ![p] = "stats_ttl"]
           /\ arg' = [arg EXCEPT ![p] = [ArgNone EXCEPT !.code = c]]
           /\ loc' = [loc EXCEPT ![p] = [LocNone EXCEPT !.values = values, !.pre = pre]]
           /\ hnd' = [hnd EXCEPT ![p] = [HndNone EXCEPT !.name = name]]
           /\ ret' = RetNone
           /\ resp' = RespNone
           /\ UNCHANGED fails
     /\ UNCHANGED <<store, expAt, now, hist, advs>>
     /\ Observe

GetStats(p) ==
  /\ CanStart(p)
  /\ ops' = ops + 1
  /\ \E c \in Codes : HGetAllStep(p, c, "none")

\* what GetStats assembles from the HGETALL values and the TTL reply (seconds)
StatsOf(code, values, ttl, t, pre) ==
  [Result("GetStats", code, ErrNil, pre) EXCEPT
     !.url = Field(values, "url"),
     !.createdAt = ParseTime(Field(values, "created_at")).val,
     !.n = ParseInt(Field(values, "visits")).val,
     !.ttl = ttl,
     !.hasExpiresAt = (ttl > 0),
     !.expiresAt = IF ttl > 0 THEN t + ttl * 1000 ELSE 0]

\* TTL key
StatsTTL(p) ==
  LET c == arg[p].code
      k == shortURLKey(c)
      ttl == TTLReply(store[k], expAt[k], now)
      v == loc[p].values
      got == [present |-> TRUE, url |-> Field(v, "url"),
              created_at |-> Field(v, "created_at"), visits |-> Field(v, "visits"),
              expires |-> (ttl > 0)]
  IN /\ pc[p] = "stats_ttl"
     /\ \/ /\ fails < MaxFails
           /\ fails' = fails + 1
           /\ Finish(p, Result("GetStats", c, StoreError, loc[p].pre))
        \/ /\ UNCHANGED fails
           /\ Finish(p, [StatsOf(c, v, ttl, now, loc[p].pre)
                           EXCEPT !.snapshot = (got \in seen[p])])
     /\ UNCHANGED <<store, expAt, now, hist, ops, advs>>
     /\ Observe

\* ---------------------------------------------------------------- DeleteShortURL
\* DEL key; name is the handler that makes the call
DelStep(p, c, name) ==
  LET k == shortURLKey(c)
      r == Del(store[k])
      pre == PreOf(hist[c])
  IN /\ \/ /\ fails < MaxFails
           /\ fails' = fails + 1
           /\ UNCHANGED <<store, expAt, hist>>
           /\ Return(p, name, Result("DeleteShortURL", c, StoreError, pre))
        \/ /\ UNCHANGED fails
           /\ store' = [store EXCEPT ![k] = r.hash]
           /\ expAt' = [expAt EXCEPT ![k] = IF Exists(r.hash) THEN @ ELSE NoExpiry]
           /\ hist' = [hist EXCEPT ![c] = IF r.removed = 0 THEN @ ELSE OnRemoved(@)]
           /\ Return(p, name, Result("DeleteShortURL", c,
                                     IF r.removed = 0 THEN ErrNotFound ELSE ErrNil, pre))
     /\ UNCHANGED <<now, advs>>
     /\ Observe

DeleteShortURL(p) ==
  /\ CanStart(p)
  /\ ops' = ops + 1
  /\ \E c \in Codes : DelStep(p, c, "none")

\* ---------------------------------------------------------------- GET /{code}
\* the {code} path values of the requests
PathCodes == Codes \cup { <<" ">> }

\* a request whose path value is blank is answered 404 without a store command
BlankPath(p, name) ==
  /\ Answer(p, RetNone, NotFoundResponse(name))
  /\ UNCHANGED <<store, expAt, now, hist, advs, fails>>
  /\ Observe

\* redirectHandler up to the return of GetLongURL
Redirect(p) ==
  /\ CanStart(p)
  /\ ops' = ops + 1
  /\ \E raw \in PathCodes :
       LET c == TrimSpace(raw)
       IN \/ /\ c = <<>>
             /\ BlankPath(p, "redirect")
          \/ /\ c # <<>>
             /\ LET r == HGet(store[shortURLKey(c)], "url")
                    pre == PreOf(hist[c])
                IN /\ \/ /\ fails < MaxFails
                         /\ fails' = fails + 1
                         /\ Answer(p, Result("GetLongURL", c, StoreError, pre),
                                   RedirectErrorResponse(c, StoreError))
                      \/ /\ r.nil
                         /\ UNCHANGED fails
                         /\ Answer(p, Result("GetLongURL", c, ErrNotFound, pre),
                                   RedirectErrorResponse(c, ErrNotFound))
                      \/ /\ ~r.nil
                         /\ UNCHANGED <<fails, loc>>
                         /\ pc' = [pc EXCEPT ![p] = "redirect_incr"]
                         /\ arg' = [arg EXCEPT ![p] = [ArgNone EXCEPT !.code = c]]
                         /\ hnd' = [hnd EXCEPT ![p] =
                                     [HndNone EXCEPT !.name = "redirect", !.target = r.val]]
                         /\ ret' = [Result("GetLongURL", c, ErrNil, pre) EXCEPT !.url = r.val]
                         /\ resp' = RespNone
                   /\ UNCHANGED <<store, expAt, now, hist, advs>>
                   /\ Observe

\* s.db.IncrementVisits(r.Context(), code)
RedirectIncrement(p) ==
  /\ pc[p] = "redirect_incr"
  /\ UNCHANGED ops
  /\ ExistsStep(p, arg[p].code)

\* ---------------------------------------------------------------- GET /api/v1/urls/{code}
\* urlStatsHandler up to GetStats' first command
StatsRequest(p) ==
  /\ CanStart(p)
  /\ ops' = ops + 1
  /\ \E raw \in PathCodes :
       \/ /\ TrimSpace(raw) = <<>>
          /\ BlankPath(p, "stats")
       \/ /\ TrimSpace(raw) # <<>>
          /\ HGetAllStep(p, TrimSpace(raw), "stats")

\* ---------------------------------------------------------------- DELETE /api/v1/urls/{code}
\* deleteURLHandler
DeleteRequest(p) ==
  /\ CanStart(p)
  /\ ops' = ops + 1
  /\ \E raw \in PathCodes :
       \/ /\ TrimSpace(raw) = <<>>
          /\ BlankPath(p, "delete")
       \/ /\ TrimSpace(raw) # <<>>
          /\ DelStep(p, TrimSpace(raw), "delete")

\* ---------------------------------------------------------------- the clock
\* time passes; the keys whose expiry has passed are gone
Advance ==
  /\ advs < MaxAdvances
  /\ advs' = advs + 1
  /\ \E d \in Durations :
       /\ now' = now + d
       /\ store' = [k \in Keys |-> IF Expired(expAt[k], now + d) THEN EmptyHash ELSE store[k]]
       /\ expAt' = [k \in Keys |-> IF Expired(expAt[k], now + d) THEN NoExpiry ELSE expAt[k]]
       /\ hist' = [c \in Codes |->
                    IF Expired(expAt[shortURLKey(c)], now + d)
                    THEN OnRemoved(hist[c]) ELSE hist[c]]
  /\ ret' = RetNone
  /\ resp' = RespNone
  /\ UNCHANGED <<pc, arg, loc, hnd, ops, fails>>
  /\ Observe

\* ---------------------------------------------------------------- Next
Next ==
  \/ \E p \in Procs : CreateShortURL(p)
  \/ \E p \in Procs : CreateHSet(p)
  \/ \E p \in Procs : CreateExpire(p)
  \/ \E p \in Procs : GetLongURL(p)
  \/ \E p \in Procs : ShortCodeExists(p)
  \/ \E p \in Procs : IncrementVisits(p)
  \/ \E p \in Procs : IncrHIncrBy(p)
  \/ \E p \in Procs : GetStats(p)
  \/ \E p \in Procs : StatsTTL(p)
  \/ \E p \in Procs : DeleteShortURL(p)
  \/ \E p \in Procs : Shorten(p)
  \/ \E p \in Procs : ShortenCreate(p)
  \/ Advance

Spec == Init /\ [][Next]_vars

\* the service as its HTTP clients drive it: every adapter call is made by a
\* handler; the requests are served within a span too short for a key to
\* expire (a DELETE request removes keys)
NextRequests ==
  \/ \E p \in Procs : ShortenRejected(p)
  \/ \E p \in Procs : Shorten(p)
  \/ \E p \in Procs : ShortenGenerate(p)
  \/ \E p \in Procs : ShortenResolve(p)
  \/ \E p \in Procs : ShortenCreate(p)
  \/ \E p \in Procs : CreateHSet(p)
  \/ \E p \in Procs : CreateExpire(p)
  \/ \E p \in Procs : Redirect(p)
  \/ \E p \in Procs : RedirectIncrement(p)
  \/ \E p \in Procs : IncrHIncrBy(p)
  \/ \E p \in Procs : StatsRequest(p)
  \/ \E p \in Procs : StatsTTL(p)
  \/ \E p \in Procs : DeleteRequest(p)

SpecRequests == Init /\ [][NextRequests]_vars

\* ---------------------------------------------------------------- resolveShortCode("")
\* resolveShortCode with an empty alias, called on its own over more outcomes
\* of the random source: every member of the alphabet is drawn at every
\* position of a code
DrawSeqs ==
  RandomDraws \cup
  { [i \in 1..shortCodeLength |-> (v + i) % Len(alphabet)] : v \in 0..(Len(alphabet) - 1) }

\* the hash under a key; the keys no call of the model writes are absent
Lookup(k) == IF k \in Keys THEN store[k] ELSE EmptyHash

\* a record as a completed CreateShortURL without ttl leaves it
StoredRecord ==
  ("url" :> "https://example.com") @@ ("created_at" :> FormatTime(0))
    @@ ("visits" :> FormatInt(0))

\* the store is empty or holds one record
InitCodes ==
  /\ store \in { [k \in Keys |-> EmptyHash], [k \in Keys |-> StoredRecord] }
  /\ hist = [c \in Codes |->
               IF Exists(store[shortURLKey(c)])
               THEN [HistNone EXCEPT !.creator = 1, !.curl = "https://example.com",
                                     !.committed = TRUE, !.origin = "hsetnx",
                                     !.wins = 1, !.oks = 1]
               ELSE HistNone]
  /\ expAt = [k \in Keys |-> NoExpiry]
  /\ now = 0
  /\ pc = [p \in Procs |-> "idle"]
  /\ arg = [p \in Procs |-> ArgNone]
  /\ loc = [p \in Procs |-> LocNone]
  /\ ret = RetNone
  /\ hnd = [p \in Procs |-> HndNone]
  /\ resp = RespNone
  /\ seen = [p \in Procs |-> {}]
  /\ ops = 0
  /\ advs = 0
  /\ fails = 0

\* one pass of the loop for the call h: generateShortCode(shortCodeLength)
\* and the existence check of the candidate
resolveShortCodePass(p, h) ==
  /\ \/ /\ fails < MaxFails
        /\ fails' = fails + 1
        /\ Answer(p, Result("resolveShortCode", <<>>, RandError, PreNone), RespNone)
     \/ /\ fails < MaxFails
        /\ fails' = fails + 1
        /\ Answer(p, Result("resolveShortCode", <<>>, StoreError, PreNone), RespNone)
     \/ /\ UNCHANGED fails
        /\ \E draws \in DrawSeqs :
             LET candidate == generateShortCode(draws)
                 exists == ShortCodeExistsReply(Lookup(shortURLKey(candidate)))
             IN IF ~exists
                THEN Answer(p, [Result("resolveShortCode", candidate, ErrNil, PreNone)
                                  EXCEPT !.n = h.attempt + 1], RespNone)
                ELSE IF h.attempt + 1 < maxCodeAttempts
                THEN /\ pc' = [pc EXCEPT ![p] = "resolve_loop"]
                     /\ hnd' = [hnd EXCEPT ![p] =
                                 [h EXCEPT !.attempt = @ + 1, !.checks = @ + 1]]
                     /\ ret' = RetNone
                     /\ resp' = RespNone
                     /\ UNCHANGED <<arg, loc>>
                ELSE Answer(p, [Result("resolveShortCode", <<>>, ExhaustedError, PreNone)
                                  EXCEPT !.n = h.attempt + 1], RespNone)
  /\ UNCHANGED <<store, expAt, now, hist, advs>>
  /\ Observe

\* resolveShortCode(ctx, ""): the first pass
resolveShortCode(p) ==
  /\ CanStart(p)
  /\ ops' = ops + 1
  /\ resolveShortCodePass(p, [HndNone EXCEPT !.name = "resolve"])

\* the later passes
resolveShortCodeLoop(p) ==
  /\ pc[p] = "resolve_loop"
  /\ UNCHANGED ops
  /\ resolveShortCodePass(p, hnd[p])

NextCodes ==
  \/ \E p \in Procs : resolveShortCode(p)
  \/ \E p \in Procs : resolveShortCodeLoop(p)

SpecCodes == InitCodes /\ [][NextCodes]_vars

\* createShortURLHandler with a custom alias, called over the
\* expiration_days at which the int64 product wraps
NextDays ==
  \/ \E p \in Procs : ShortenLong(p)
  \/ \E p \in Procs : ShortenCreate(p)
  \/ \E p \in Procs : CreateHSet(p)
  \/ \E p \in Procs : CreateExpire(p)

SpecDays == Init /\ [][NextDays]_vars

\* ---------------------------------------------------------------- properties
KeyOf(c) == store[shortURLKey(c)]
Creating(p, c) == pc[p] \in {"create_hset", "create_expire"} /\ arg[p].code = c

\* C1: of the CreateShortURL calls on a code whose key was absent and has not
\* been removed since, exactly one returns nil and every other one returns
\* ErrConflict, however their HSETNX, HSET and EXPIRE commands interleave:
\* the atomic set succeeds once, at most one call returns nil, a call gets
\* ErrConflict only when another call holds the code, and once all calls are
\* back (no store command having failed) the one whose set succeeded has
\* returned nil.
C1_ExactlyOneCreateSucceeds ==
  \A c \in Codes :
    ~hist[c].removed =>
      /\ hist[c].wins <= 1
      /\ hist[c].oks <= 1
      /\ (ret.op = "CreateShortURL" /\ ret.code = c /\ ret.err = ErrConflict)
           => hist[c].wins = 1
      /\ (ret.op = "CreateShortURL" /\ ret.code = c /\ ret.err = ErrNil)
           => hist[c].oks = 1
      /\ (fails = 0 /\ hist[c].wins = 1 /\ \A p \in Procs : ~Creating(p, c))
           => hist[c].oks = 1

\* a call has returned ErrConflict while the call that won is still between
\* its HSETNX and its last command
C1_Witness ==
  /\ ret.op = "CreateShortURL"
  /\ ret.err = ErrConflict
  /\ ~hist[ret.code].removed
  /\ \E p \in Procs : Creating(p, ret.code)

\* C2: of the shorten requests for one custom alias whose key has not been
\* removed, at most one is answered 201, and then the key holds that
\* request's url; a request that passed the existence check and is not
\* answered 201 is answered 409 (500 after a store error) and the key holds
\* the url of the request whose set succeeded.
C2_OneAliasOneWinner ==
  \A c \in Codes :
    (resp.handler = "shorten" /\ resp.code = c /\ ~hist[c].removed) =>
      /\ resp.status = 201 =>
           /\ hist[c].oks = 1
           /\ Field(KeyOf(c), "url") = resp.url
      /\ (resp.passed /\ resp.status # 201) =>
           /\ resp.status \in {409, 500}
           /\ resp.status = 500 => fails > 0
           /\ resp.status = 409 =>
                /\ hist[c].wins = 1
                /\ Field(KeyOf(c), "url") = hist[c].curl

\* a request that passed the existence check is answered 409 by
\* CreateShortURL while the request that won is still in its handler, and the
\* key holds the winner's url, not the loser's
C2_Witness ==
  /\ resp.handler = "shorten"
  /\ resp.status = 409
  /\ resp.passed
  /\ ~hist[resp.code].removed
  /\ Field(KeyOf(resp.code), "url") # resp.url
  /\ \E p \in Procs : hnd[p].name = "shorten" /\ Creating(p, resp.code)

\* C3: the store holds a key for a code iff a CreateShortURL's atomic set for
\* that code succeeded and the key has since neither expired nor been deleted.
C3_KeyIffCreated ==
  \A c \in Codes : Exists(KeyOf(c)) <=> hist[c].creator # 0

\* C4: IncrementVisits never creates a record on an absent key: no key of the
\* store was brought into being by its HINCRBY.
C4_IncrementNeverCreates ==
  \A c \in Codes : hist[c].origin # "hincrby"

\* C5: every successful GetStats result is the record as it stood at one
\* instant during the call.
C5_StatsIsSnapshot ==
  (ret.op = "GetStats" /\ ret.err = ErrNil) => ret.snapshot

\* C6: a CreateShortURL that starts after a CreateShortURL on the same code
\* has returned nil, the record still existing, returns ErrConflict (unless
\* the store fails), whatever longURL and ttl it carries: no such call ever
\* gets past its atomic set.
C6_CreateAfterCreateConflicts ==
  /\ (ret.op = "CreateShortURL" /\ ret.pre.committed /\ ret.err # StoreError)
       => ret.err = ErrConflict
  /\ \A p \in Procs :
       pc[p] \in {"create_hset", "create_expire"} => ~loc[p].pre.committed

\* a call with another longURL and another ttl than the record's is refused
C6_Witness ==
  /\ ret.op = "CreateShortURL"
  /\ ret.pre.committed
  /\ ret.err = ErrConflict
  /\ ret.longURL # ret.pre.curl
  /\ (ret.ttl > 0) # (expAt[shortURLKey(ret.code)] # NoExpiry)

\* C7: on a record whose CreateShortURL(code, longURL, ttl) has returned nil
\* and that has not been removed since its atomic set, ShortCodeExists is
\* true, GetLongURL returns longURL, and GetStats returns longURL, and
\* visits 0 as long as nothing has been incremented.
C7_ReadsAfterCreate ==
  (ret.pre.committed /\ ret.err # StoreError) =>
    /\ ret.op = "ShortCodeExists" => ret.found
    /\ ret.op = "GetLongURL" => (ret.err = ErrNil /\ ret.url = ret.pre.curl)
    /\ ret.op = "GetStats" =>
         /\ ret.err = ErrNil
         /\ ret.url = ret.pre.curl
         /\ ret.pre.incs = 0 => ret.n = 0

\* GetStats on a fresh record returns its url and visits 0
C7_Witness ==
  /\ ret.op = "GetStats"
  /\ ret.pre.committed
  /\ ret.err = ErrNil
  /\ ret.url = "https://example.com/dup"
  /\ ret.n = 0

\* C8: after the key has been deleted or has expired, and until a command of
\* a CreateShortURL writes it again, GetLongURL, GetStats, IncrementVisits
\* and DeleteShortURL return ErrNotFound and ShortCodeExists returns false.
C8_GoneIsNotFound ==
  (ret.pre.gone /\ ret.err # StoreError) =>
    /\ ret.op \in {"GetLongURL", "GetStats", "IncrementVisits", "DeleteShortURL"}
         => ret.err = ErrNotFound
    /\ ret.op = "ShortCodeExists" => ~ret.found

\* C9: no increment is lost: the IncrementVisits calls made on a key since its
\* visits were last set to 0 (by creation) have returned the distinct values
\* 1 .. n, the stored count is n, and GetStats reports the count as it stood
\* when it read the record.
C9_NoLostIncrement ==
  /\ \A c \in Codes :
       /\ hist[c].rets = 1..hist[c].incs
       /\ "visits" \in DOMAIN KeyOf(c) => KeyOf(c)["visits"] = FormatInt(hist[c].incs)
       /\ "visits" \notin DOMAIN KeyOf(c) => hist[c].incs = 0
  /\ (ret.op = "IncrementVisits" /\ ret.err = ErrNil)
       => (ret.n = hist[ret.code].incs /\ ret.n > 0)
  /\ (ret.op = "GetStats" /\ ret.err = ErrNil) => ret.n = ret.pre.incs

\* after two increments of a record whose creation has completed GetStats
\* reports visits = 2
C9_Witness ==
  /\ ret.op = "GetStats"
  /\ ret.err = ErrNil
  /\ ret.pre.committed
  /\ ret.n = 2
  /\ hist[ret.code].rets = {1, 2}

\* C10: IncrementVisits on a code that was never created returns ErrNotFound
\* (unless the store fails) and the store holds no key for such a code.
C10_IncrementNeverCreated ==
  /\ (ret.op = "IncrementVisits" /\ ~ret.pre.ever /\ ret.err # StoreError)
       => ret.err = ErrNotFound
  /\ \A p \in Procs : pc[p] = "incr_hincrby" => loc[p].pre.ever
  /\ \A c \in Codes :
       (hist[c].creator = 0 /\ ~hist[c].removed) => DOMAIN KeyOf(c) = {}

\* IncrementVisits on a code no call ever wrote returns ErrNotFound and the
\* store holds nothing under the code's key
C10_Witness ==
  /\ ret.op = "IncrementVisits"
  /\ ~ret.pre.ever
  /\ ret.err = ErrNotFound
  /\ DOMAIN KeyOf(ret.code) = {}

\* C11: a CreateShortURL whose atomic set succeeded and whose HSET or EXPIRE
\* then failed returns a store error, never ErrConflict; as long as the key is
\* not removed the url it set stays in the store, and a later CreateShortURL
\* on the code returns ErrConflict (unless the store fails) without writing.
C11_PartialFailureSurfaces ==
  /\ (ret.op = "CreateShortURL" /\ ret.set /\ ret.err # ErrNil)
       => (ret.err = StoreError /\ ret.err # ErrConflict)
  /\ \A c \in Codes :
       hist[c].partial => Field(KeyOf(c), "url") = hist[c].curl
  /\ (ret.op = "CreateShortURL" /\ ret.pre.partial /\ ret.err # StoreError)
       => ret.err = ErrConflict
  /\ \A p \in Procs :
       pc[p] \in {"create_hset", "create_expire"} => ~loc[p].pre.partial

\* after a call failed at its metadata write, a later call is refused and the
\* key still holds the url without created_at
C11_Witness ==
  /\ ret.op = "CreateShortURL"
  /\ ret.pre.partial
  /\ ret.err = ErrConflict
  /\ Field(KeyOf(ret.code), "url") = ret.pre.curl
  /\ "created_at" \notin DOMAIN KeyOf(ret.code)

\* C12: GetStats sets expiresAt to read time + remaining TTL exactly when the
\* TTL reply is strictly positive; hence on a record whose creation has
\* completed and whose key has never been removed (neither deleted nor
\* expired), expiresAt is non-null and later than the read when the record
\* was created with ttl > 0, and null when it was created without TTL.
C12_ExpiresAtFromTTL ==
  (ret.op = "GetStats" /\ ret.err = ErrNil) =>
    /\ ret.hasExpiresAt <=> ret.ttl > 0
    /\ ret.hasExpiresAt => ret.expiresAt = now + ret.ttl * 1000
    /\ (ret.pre.committed /\ ~hist[ret.code].removed) =>
         /\ ret.pre.cttl > 0 => (ret.hasExpiresAt /\ ret.expiresAt > now)
         /\ ret.pre.cttl = 0 => ~ret.hasExpiresAt

\* C13: for a custom alias that matches the pattern, resolveShortCode makes
\* one existence check and returns the alias itself when the check reports it
\* absent, ErrConflict when the check reports it present (the error of the
\* check when the store fails); the code handed to CreateShortURL and
\* answered with 201 is the alias, never a generated code.
C13_CustomAliasResolved ==
  /\ [](/\ \A p \in Procs :
            (pc[p] = "shorten_create" /\ hnd[p].alias # <<>>) =>
              (arg[p].code = hnd[p].alias /\ hnd[p].checks = 1)
        /\ (resp.handler = "shorten" /\ resp.alias # <<>> /\ aliasPattern(resp.alias)) =>
             /\ resp.checks = 1
             /\ resp.from = "resolveShortCode" =>
                  \/ resp.err = ErrConflict /\ Exists(KeyOf(resp.alias))
                  \/ resp.err = StoreError /\ fails > 0
             /\ resp.status = 201 => resp.code = resp.alias)
  /\ [][\A p \in Procs :
          (pc[p] = "idle" /\ pc'[p] = "shorten_create" /\ hnd'[p].alias # <<>>) =>
            (~Exists(KeyOf(hnd'[p].alias)) /\ aliasPattern(hnd'[p].alias))]_vars

\* the alias is handed to CreateShortURL unchanged after the check found it
\* absent
C13_Witness ==
  \E p \in Procs :
    /\ pc[p] = "shorten_create"
    /\ hnd[p].alias = <<"a","b","c","1","2","3","4">>
    /\ arg[p].code = hnd[p].alias
    /\ ~Exists(KeyOf(hnd[p].alias))

\* C14: a request whose custom alias does not match the pattern is answered
\* with the validation error (400) after no existence check, the step that
\* answers it leaves the store, the expiries and the count of failed store
\* commands as they were, and no request with such an alias gets as far as a
\* store command.
C14_InvalidAliasNoStore ==
  /\ [](/\ (resp.handler = "shorten" /\ resp.alias # <<>> /\ ~aliasPattern(resp.alias)) =>
             /\ resp.status = 400
             /\ resp.err = AliasError
             /\ resp.checks = 0
             /\ ~resp.passed
        /\ \A p \in Procs :
             (hnd[p].name = "shorten" /\ hnd[p].alias # <<>>) => aliasPattern(hnd[p].alias))
  /\ [][resp'.err = AliasError => UNCHANGED <<store, expAt, hist, fails>>]_vars

\* an alias with a character outside the pattern is refused while the store
\* holds a record
C14_Witness ==
  /\ resp.err = AliasError
  /\ resp.status = 400
  /\ resp.alias = <<"a","b","c","!">>
  /\ \E c \in Codes : Exists(KeyOf(c))

\* C15: with an empty alias resolveShortCode makes at most maxCodeAttempts = 10
\* existence checks: its loop counter grows by one in every pass and stays
\* below 10, and the exhaustion error is returned after exactly 10 checks that
\* all found the candidate present, by a request that never called
\* CreateShortURL, in a step that leaves the store as it was.
C15_ResolveTerminates ==
  /\ [](/\ \A p \in Procs :
            /\ hnd[p].checks <= 10
            /\ pc[p] = "shorten_resolve" =>
                 (hnd[p].attempt < 10 /\ hnd[p].checks = hnd[p].attempt)
        /\ (resp.handler = "shorten" /\ resp.alias = <<>>) => resp.checks <= 10
        /\ resp.err = ExhaustedError =>
             (resp.checks = 10 /\ resp.status = 500 /\ ~resp.passed))
  /\ [][/\ \A p \in Procs :
            (pc[p] = "shorten_resolve" /\ pc'[p] = "shorten_resolve" /\ hnd'[p] # hnd[p])
              => (hnd'[p].attempt = hnd[p].attempt + 1
                  /\ \E c \in Codes : Exists(KeyOf(c)))
        /\ resp'.err = ExhaustedError =>
             (UNCHANGED <<store, expAt, hist>> /\ \E c \in Codes : Exists(KeyOf(c)))]_vars

\* ten candidates in a row were found present and the request is answered 500
C15_Witness ==
  /\ resp.err = ExhaustedError
  /\ resp.checks = 10
  /\ resp.status = 500

\* C16: a GET /{code} request is answered 302 only when the IncrementVisits
\* call of that request returned nil.
C16_RedirectCountsVisit ==
  (resp.handler = "redirect" /\ resp.status = 302) => resp.incremented

C18_GeneratedCodeShape ==
  (ret.op = "resolveShortCode" /\ ret.err = ErrNil) =>
    /\ Len(ret.code) = 7
    /\ Cardinality({alphabet[j] : j \in 1..Len(alphabet)}) = 62
    /\ \A i \in 1..Len(ret.code) : ret.code[i] \in {alphabet[j] : j \in 1..Len(alphabet)}

\* a code that starts with the last symbol of the alphabet followed by the
\* first is returned, on the second pass
C18_Witness ==
  /\ ret.op = "resolveShortCode"
  /\ ret.err = ErrNil
  /\ ret.code = <<"Z","0","1","2","3","4","5">>
  /\ ret.n = 2

\* the visit count a hash holds, 0 when the field is missing
VisitsOf(h) == IF "visits" \in DOMAIN h THEN ParseInt(h["visits"]).val ELSE 0

\* C19: while the key of a code exists, its visit count never goes down, and
\* it goes up only by one, in a HINCRBY step of IncrementVisits.
C19_VisitsOnlyGrow ==
  [][\A c \in Codes :
       (Exists(store[shortURLKey(c)]) /\ Exists(store'[shortURLKey(c)])) =>
         \/ VisitsOf(store'[shortURLKey(c)]) = VisitsOf(store[shortURLKey(c)])
         \/ /\ VisitsOf(store'[shortURLKey(c)]) = VisitsOf(store[shortURLKey(c)]) + 1
            /\ \E p \in Procs : pc[p] = "incr_hincrby" /\ arg[p].code = c]_vars

\* C20: the created_at field of an existing key is written by the
\* CreateShortURL call whose HSETNX created the record the key holds, and once
\* written it does not change while the key exists.
C20_CreatedAtWrittenOnce ==
  [][\A c \in Codes :
       /\ ("created_at" \in DOMAIN store[shortURLKey(c)] /\ Exists(store'[shortURLKey(c)])) =>
            /\ "created_at" \in DOMAIN store'[shortURLKey(c)]
            /\ store'[shortURLKey(c)]["created_at"] = store[shortURLKey(c)]["created_at"]
       /\ (Exists(store[shortURLKey(c)])
            /\ "created_at" \notin DOMAIN store[shortURLKey(c)]
            /\ "created_at" \in DOMAIN store'[shortURLKey(c)]) =>
            \E p \in Procs :
              /\ pc[p] = "create_hset"
              /\ pc'[p] # "create_hset"
              /\ arg[p].code = c
              /\ hist[c].creator = p]_vars

\* C21: the url field of a key is never overwritten: a key that holds a url
\* holds the same url after every step that leaves the key in the store.
C21_URLNeverOverwritten ==
  [][\A c \in Codes :
       ("url" \in DOMAIN store[shortURLKey(c)] /\ Exists(store'[shortURLKey(c)])) =>
         /\ "url" \in DOMAIN store'[shortURLKey(c)]
         /\ store'[shortURLKey(c)]["url"] = store[shortURLKey(c)]["url"]]_vars

\* a CreateShortURL with another url has returned while the key keeps the url
\* it held
C21_Witness ==
  /\ ret.op = "CreateShortURL"
  /\ ret.err = ErrConflict
  /\ "url" \in DOMAIN KeyOf(ret.code)
  /\ KeyOf(ret.code)["url"] # ret.longURL

\* C22: the step in which a CreateShortURL call returns ErrConflict leaves
\* every field of every key and every expiry (a missing expiry included) as
\* they were, whatever longURL and ttl the call carried.
C22_ConflictLeavesRecord ==
  [][(ret'.op = "CreateShortURL" /\ ret'.err = ErrConflict) =>
       /\ UNCHANGED <<store, expAt>>
       /\ Exists(store[shortURLKey(ret'.code)])]_vars

\* a call with another url and a ttl was refused on a complete record
\* without expiry
C22_Witness ==
  /\ ret.op = "CreateShortURL"
  /\ ret.err = ErrConflict
  /\ ret.ttl > 0
  /\ DOMAIN KeyOf(ret.code) = {"url", "created_at", "visits"}
  /\ KeyOf(ret.code)["url"] # ret.longURL
  /\ expAt[shortURLKey(ret.code)] = NoExpiry

\* C23: a step in which a store command fails changes neither the store nor
\* an expiry, ends the call that issued the command with the store error (no
\* process is left at a further command it was not at before), and the
\* failure is what the call returns: no command is retried and none follows
\* a failed one.
C23_NoRetryAfterFailure ==
  [][fails' # fails =>
       /\ UNCHANGED <<store, expAt>>
       /\ \A p \in Procs :
            pc'[p] # "idle" => (pc'[p] = pc[p] /\ arg'[p] = arg[p] /\ hnd'[p] = hnd[p])
       /\ \/ ret'.err = StoreError
          \/ resp'.err \in {StoreError, RandError}]_vars

\* the existence check of a later pass of resolveShortCode failed and the
\* request was answered at once
C23_Witness ==
  /\ resp.handler = "shorten"
  /\ resp.from = "resolveShortCode"
  /\ resp.alias = <<>>
  /\ resp.err = StoreError
  /\ resp.checks >= 2
  /\ fails > 0
  /\ \A p \in Procs : pc[p] # "shorten_resolve"

\* C24: ShortCodeExists and GetLongURL agree in every state: a key that
\* ShortCodeExists reports as existing has a url field, so GetLongURL resolves
\* it.
C24_ExistsImpliesURL ==
  \A c \in Codes :
    ShortCodeExistsReply(KeyOf(c)) => ~HGet(KeyOf(c), "url").nil

\* C25: GetStats and GetLongURL agree on existence at the instant GetStats
\* reads the key: when no store command fails GetStats goes on to return
\* stats only for a key that has a url, returns ErrNotFound only for a key
\* without one, and returns no other error.
C25_StatsAgreesWithGetLongURL ==
  [][/\ \A p \in Procs :
          (pc[p] # "stats_ttl" /\ pc'[p] = "stats_ttl") =>
            ~HGet(store[shortURLKey(arg'[p].code)], "url").nil
     /\ (ret'.op = "GetStats" /\ ret'.err = ErrNotFound) =>
          HGet(store[shortURLKey(ret'.code)], "url").nil
     /\ (ret'.op = "GetStats" /\ fails' = fails) =>
          ret'.err \in {ErrNil, ErrNotFound}]_vars

\* C26: a key whose record was created by the atomic set of a CreateShortURL
\* call with ttl = 0 carries no expiry.
C26_ExpiryFromCreatorOnly ==
  \A c \in Codes :
    (Exists(KeyOf(c)) /\ hist[c].creator # 0 /\ hist[c].cttl = 0) =>
      expAt[shortURLKey(c)] = NoExpiry

\* C27: for every expiration_days > 0 of a request answered 201, the ttl
\* given to CreateShortURL is expiration_days x 24h without wrap-around, it
\* is positive, the key carries an expiry, and the expires_at of the response
\* lies in the future.
C27_ExpirationDaysExact ==
  (resp.handler = "shorten" /\ resp.status = 201 /\ resp.days > 0) =>
    /\ ~Wraps(resp.days)
    /\ ret.ttl > 0
    /\ expAt[shortURLKey(resp.code)] # NoExpiry
    /\ resp.hasExpiresAt
    /\ resp.expiresAt > now
====
